---- MODULE Spec2Model ----
(***************************************************************************)
(* VidKeep ingestion pipeline: the admission API (ingest, cancel, delete), *)
(* the ARQ job queue, the download worker with its progress hook, the      *)
(* Redis cancellation flag and the files under /data/videos; the WebSocket  *)
(* gateway /ws/progress with its Redis pub/sub subscriptions; and the       *)
(* range-request streaming endpoint /api/stream/{video_id}.                 *)
(*                                                                         *)
(* Every handler is an async function; one action is one stretch of a      *)
(* handler between two awaits that touch shared state (the videos table,   *)
(* Redis, the queue, the file system).                                     *)
(***************************************************************************)
EXTENDS Integers, Sequences, FiniteSets, TLC

\* ---------------------------------------------------------------- bounds
NumVideos == 1          \* distinct YouTube video ids
MaxReqs == 2            \* API requests in flight at once
MaxOps == 3             \* API requests issued in one behaviour
MaxRunning == 2         \* job executions running at once (at most max_jobs)
MaxQueue == 2           \* jobs waiting in the ARQ queue
MaxBytes == 1           \* size in bytes of one downloaded stream
MaxConns == 2           \* WebSocket connections accepted in one behaviour
MaxInbox == 1           \* messages Redis buffers for one subscriber
ThrottleTicks == 1      \* clock ticks in one progress throttle interval
MaxSize == 101          \* largest size in bytes of a stored {video_id}.mp4
MaxNum == 2             \* largest small number written in a Range header
SuffixLen == 100        \* the suffix length of "Range: bytes=-100"
MaxSocks == 3           \* WebSocket objects the browser creates in one behaviour
MaxTimers == 3          \* reconnect timers the browser sets in one behaviour
MaxHooks == 1           \* useWebSocket hook instances mounted at once

\* ------------------------------------------------------ program constants
max_jobs == 10
max_tries == 3
NumStreams == 2         \* FORMAT_STRING: bestvideo+bestaudio, or best[ext=mp4]

Min(a, b) == IF a < b THEN a ELSE b

Videos == 1..NumVideos
Reqs == 1..MaxReqs
Workers == 1..Min(MaxRunning, max_jobs)
Conns == 1..MaxConns
Socks == 1..MaxSocks
Timers == 1..MaxTimers

NoVideo == 0

NoPercent == -1

NotRunning == -2

VARIABLES
  db,          \* videos table: video_id -> [status, error]; status "none" = no row
  cancelFlag,  \* Redis key cancel:{video_id}
  queue,       \* ARQ queue, oldest job first
  file,        \* /data/videos: [mp4: {video_id}.mp4 exists, part: partial artifacts exist]
  mediaDir,    \* MEDIA_DIR/{video_id}/ holds files
  published,   \* percent of the last message on channel progress:{video_id}
  req,         \* API requests: position and locals of each handler
  wk,          \* job executions: position and locals of each download_video
  lastResp,    \* the response most recently returned: [op, vid, code] and
               \* the status its handler had read
  opsLeft,     \* API requests that may still be issued
  conn,        \* /ws/progress connections: position of each websocket_progress
  subs,        \* connections whose pubsub is psubscribed to progress:*
  registry,    \* manager.active_connections
  inbox,       \* messages Redis holds for each subscriber, oldest first
  client,      \* browser end of each connection: [state, got, at]
  sincePub,    \* clock ticks since the last publish on progress:{video_id}
  fsize,       \* size in bytes of /data/videos/{video_id}.mp4
  sresp,       \* the response most recently returned by /api/stream
  sock,        \* browser: readyState and queued events of each WebSocket object
  wsInstance,  \* useWebSocket.ts: wsInstance (0 = null)
  isConnecting,     \* useWebSocket.ts: isConnecting
  timers,           \* browser: reconnect timers set and not yet fired or cleared
  reconnectTimeout, \* useWebSocket.ts: reconnectTimeout (0 = null)
  nextTimer,        \* browser: timers handed out so far
  pingInterval,     \* useWebSocket.ts: pingInterval is set
  mounted,          \* hook instances mounted: size of wsListeners and of
                    \* connectionStateListeners
  progress          \* useDownloadProgress: progress[videoId].percent

\* the gateway, its clients and the clock
gw == <<conn, subs, registry, inbox, client, sincePub>>

\* the stored video sizes and the streaming endpoint
sv == <<fsize, sresp>>

\* the browser: the shared WebSocket of useWebSocket and the progress map
fe == <<sock, wsInstance, isConnecting, timers, reconnectTimeout, nextTimer,
        pingInterval, mounted, progress>>

vars == <<db, cancelFlag, queue, file, mediaDir, published, req, wk, lastResp,
          opsLeft, gw, sv, fe>>

NoFile == [mp4 |-> FALSE, part |-> FALSE]

NoRow == [status |-> "none", error |-> "none"]

IdleReq == [op |-> "none", vid |-> NoVideo, pc |-> "done", seen |-> "none"]

NoResp == [op |-> "none", vid |-> NoVideo, code |-> "none", seen |-> "none"]

IdleWk == [pc |-> "idle", vid |-> NoVideo, try |-> 0, stream |-> 0,
           bytes |-> 0, known |-> FALSE]

NoClient == [state |-> "none", got |-> [v \in Videos |-> NoPercent],
             at |-> [v \in Videos |-> NotRunning]]

NoBody == [from |-> 0, len |-> 0]

NoRange == [form |-> "none", a |-> 0, b |-> 0]

NoStreamResp == [vid |-> NoVideo, seen |-> "none", header |-> NoRange,
                 code |-> "none", start |-> 0, end |-> 0, size |-> 0,
                 length |-> 0, body |-> NoBody]

\* nothing connected, no clock running, no stream request answered, the page
\* not yet loaded
InitExt ==
  /\ conn = [c \in Conns |-> "new"]
  /\ subs = {}
  /\ registry = {}
  /\ inbox = [c \in Conns |-> <<>>]
  /\ client = [c \in Conns |-> NoClient]
  /\ sincePub = [v \in Videos |-> 0]
  /\ sresp = NoStreamResp
  /\ sock = [s \in Socks |-> "unused"]
  /\ wsInstance = 0
  /\ isConnecting = FALSE
  /\ timers = {}
  /\ reconnectTimeout = 0
  /\ nextTimer = 0
  /\ pingInterval = FALSE
  /\ mounted = 0
  /\ progress = [v \in Videos |-> NoPercent]

Init ==
  /\ db = [v \in Videos |-> NoRow]
  /\ cancelFlag = [v \in Videos |-> FALSE]
  /\ queue = <<>>
  /\ file = [v \in Videos |-> NoFile]
  /\ mediaDir = [v \in Videos |-> FALSE]
  /\ published = [v \in Videos |-> NoPercent]
  /\ req = [r \in Reqs |-> IdleReq]
  /\ wk = [w \in Workers |-> IdleWk]
  /\ lastResp = NoResp
  /\ opsLeft = MaxOps
  /\ InitExt
  /\ fsize = [v \in Videos |-> 0]

\* ------------------------------------------------------------ helpers
\* the handler of request r returns: the slot is free again
Respond(r, code) ==
  /\ req' = [req EXCEPT ![r] = IdleReq]
  /\ lastResp' = [op |-> req[r].op, vid |-> req[r].vid, code |-> code,
                  seen |-> req[r].seen]

Goto(r, pc) ==
  /\ req' = [req EXCEPT ![r].pc = pc]
  /\ UNCHANGED lastResp

\* a new request takes the first free slot
FreeSlot(r) ==
  /\ req[r].pc = "done"
  /\ \A r2 \in Reqs : r2 < r => req[r2].pc # "done"

\* the handler of a new request answers at once, or goes on to position pc
Answer(r, op, v, code) ==
  /\ req' = req
  /\ lastResp' = [op |-> op, vid |-> v, code |-> code, seen |-> db[v].status]

Begin(r, op, v, pc) ==
  /\ req' = [req EXCEPT ![r] = [op |-> op, vid |-> v, pc |-> pc,
                                seen |-> db[v].status]]
  /\ UNCHANGED lastResp

\* a job is started in the first free job slot
FreeWorker(w) ==
  /\ wk[w].pc = "idle"
  /\ \A w2 \in Workers : w2 < w => wk[w2].pc # "idle"

DownloadJob(v, t) == [fn |-> "download_video", vid |-> v, try |-> t]

CleanupJob(v) == [fn |-> "cleanup_partial_download", vid |-> v, try |-> 1]

\* enqueue_download: pool.enqueue_job("download_video", video_id, url)
enqueue_download(v) == queue' = Append(queue, DownloadJob(v, 1))

\* ------------------------------------------------- POST /api/videos/ingest
\* validate_youtube_url, then existing = await db.get(Video, video_id) and
\* the branch on existing.status
IngestGet(r, v, valid) ==
  /\ FreeSlot(r)
  /\ opsLeft > 0
  /\ opsLeft' = opsLeft - 1
  /\ IF ~valid
       THEN Answer(r, "ingest", v, "400")
     ELSE IF db[v].status \in {"complete", "pending", "downloading"}
       THEN Answer(r, "ingest", v, "409")
     ELSE IF db[v].status \in {"failed", "cancelled"}
       THEN Begin(r, "ingest", v, "ingest_retry_commit")
     ELSE Begin(r, "ingest", v, "ingest_extract")
  /\ UNCHANGED <<gw, sv, fe, db, cancelFlag, queue, file, mediaDir, published, wk>>

\* else branch: existing.status = "pending"; existing.error_message = None;
\* await db.commit().  The UPDATE of a row deleted meanwhile raises.
IngestRetryCommit(r) ==
  /\ req[r].pc = "ingest_retry_commit"
  /\ LET v == req[r].vid IN
     IF db[v].status = "none"
       THEN /\ Respond(r, "500")
            /\ UNCHANGED db
       ELSE /\ db' = [db EXCEPT ![v] = [status |-> "pending", error |-> "none"]]
            /\ Goto(r, "ingest_enqueue")
  /\ UNCHANGED <<gw, sv, fe, cancelFlag, queue, file, mediaDir, published, wk, opsLeft>>

\* info = await ytdlp.extract_info(request.url); failure gives 422
IngestExtract(r, ok) ==
  /\ req[r].pc = "ingest_extract"
  /\ IF ok THEN Goto(r, "ingest_insert") ELSE Respond(r, "422")
  /\ UNCHANGED <<gw, sv, fe, db, cancelFlag, queue, file, mediaDir, published, wk, opsLeft>>

\* db.add(video); await db.commit().  video_id is the primary key: the
\* INSERT of an id already present raises IntegrityError.
IngestInsert(r) ==
  /\ req[r].pc = "ingest_insert"
  /\ LET v == req[r].vid IN
     IF db[v].status # "none"
       THEN /\ Respond(r, "500")
            /\ UNCHANGED db
       ELSE /\ db' = [db EXCEPT ![v] = [status |-> "pending", error |-> "none"]]
            /\ Goto(r, "ingest_enqueue")
  /\ UNCHANGED <<gw, sv, fe, cancelFlag, queue, file, mediaDir, published, wk, opsLeft>>

\* await enqueue_download(video_id, request.url); return 202
IngestEnqueue(r) ==
  /\ req[r].pc = "ingest_enqueue"
  /\ Len(queue) < MaxQueue
  /\ enqueue_download(req[r].vid)
  /\ Respond(r, "202")
  /\ UNCHANGED <<gw, sv, fe, db, cancelFlag, file, mediaDir, published, wk, opsLeft>>

\* ------------------------------------------ POST /videos/{video_id}/cancel
\* video = await db.get(Video, video_id); 404 / 400 checks
CancelGet(r, v) ==
  /\ FreeSlot(r)
  /\ opsLeft > 0
  /\ opsLeft' = opsLeft - 1
  /\ IF db[v].status = "none"
       THEN Answer(r, "cancel", v, "404")
     ELSE IF db[v].status \notin {"pending", "downloading"}
       THEN Answer(r, "cancel", v, "400")
     ELSE Begin(r, "cancel", v, "cancel_set_flag")
  /\ UNCHANGED <<gw, sv, fe, db, cancelFlag, queue, file, mediaDir, published, wk>>

\* await redis.set(f"cancel:{video_id}", "1", ex=3600)
CancelSetFlag(r) ==
  /\ req[r].pc = "cancel_set_flag"
  /\ cancelFlag' = [cancelFlag EXCEPT ![req[r].vid] = TRUE]
  /\ Goto(r, "cancel_commit")
  /\ UNCHANGED <<gw, sv, fe, db, queue, file, mediaDir, published, wk, opsLeft>>

\* video.status = 'cancelled'; video.error_message = ...; await db.commit()
CancelCommit(r) ==
  /\ req[r].pc = "cancel_commit"
  /\ LET v == req[r].vid IN
     IF db[v].status = "none"
       THEN /\ Respond(r, "500")
            /\ UNCHANGED db
       ELSE /\ db' = [db EXCEPT ![v] = [status |-> "cancelled", error |-> "cancelled"]]
            /\ Goto(r, "cancel_enqueue")
  /\ UNCHANGED <<gw, sv, fe, cancelFlag, queue, file, mediaDir, published, wk, opsLeft>>

\* await redis.enqueue_job('cleanup_partial_download', video_id); return 200
CancelEnqueue(r) ==
  /\ req[r].pc = "cancel_enqueue"
  /\ Len(queue) < MaxQueue
  /\ queue' = Append(queue, CleanupJob(req[r].vid))
  /\ Respond(r, "200")
  /\ UNCHANGED <<gw, sv, fe, db, cancelFlag, file, mediaDir, published, wk, opsLeft>>

\* ------------------------------------------- DELETE /api/videos/{video_id}
\* video = await db.get(Video, video_id); 404 check; unlink {video_id}.mp4
DeleteGet(r, v) ==
  /\ FreeSlot(r)
  /\ opsLeft > 0
  /\ opsLeft' = opsLeft - 1
  /\ IF db[v].status = "none"
       THEN /\ Answer(r, "delete", v, "404")
            /\ UNCHANGED file
       ELSE /\ Begin(r, "delete", v, "delete_commit")
            /\ file' = [file EXCEPT ![v].mp4 = FALSE]
  /\ UNCHANGED <<gw, sv, fe, db, cancelFlag, queue, mediaDir, published, wk>>

\* await db.delete(video); await db.commit(); return 204
DeleteCommit(r) ==
  /\ req[r].pc = "delete_commit"
  /\ db' = [db EXCEPT ![req[r].vid] = NoRow]
  /\ Respond(r, "204")
  /\ UNCHANGED <<gw, sv, fe, cancelFlag, queue, file, mediaDir, published, wk, opsLeft>>

\* ---------------------------------------------------- ARQ worker, download_video
\* percent = int((downloaded / total * 100)) if total > 0 else 0
Percent(downloaded, total) ==
  IF total > 0 THEN (downloaded * 100) \div total ELSE 0

\* redis.publish(f"progress:{video_id}", json.dumps({"percent": percent, ...})):
\* Redis hands the message to every pattern subscriber with room in its
\* output buffer, and never waits for a subscriber
publish(v, percent) ==
  /\ published' = [published EXCEPT ![v] = percent]
  /\ inbox' = [c \in Conns |->
                 IF c \in subs /\ Len(inbox[c]) < MaxInbox
                   THEN Append(inbox[c], [vid |-> v, percent |-> percent])
                   ELSE inbox[c]]
  /\ sincePub' = [sincePub EXCEPT ![v] = 0]

\* cleanup_partial_download: returns early when the row is gone; otherwise
\* unlinks the files under MEDIA_DIR/{video_id}/ and nothing under /data/videos
cleanup_partial_download(v) ==
  mediaDir' = IF db[v].status = "none" THEN mediaDir
              ELSE [mediaDir EXCEPT ![v] = FALSE]

\* a free job slot takes the oldest download_video job from the queue
StartJob(w) ==
  /\ FreeWorker(w)
  /\ queue # <<>>
  /\ Head(queue).fn = "download_video"
  /\ queue' = Tail(queue)
  /\ wk' = [wk EXCEPT ![w] = [IdleWk EXCEPT !.pc = "check_cancel",
                                            !.vid = Head(queue).vid,
                                            !.try = Head(queue).try]]
  /\ UNCHANGED <<gw, sv, fe, db, cancelFlag, file, mediaDir, published, req, lastResp, opsLeft>>

\* a free job slot takes the cleanup job enqueued by cancel_download and runs it
RunCleanupJob(w) ==
  /\ FreeWorker(w)
  /\ queue # <<>>
  /\ Head(queue).fn = "cleanup_partial_download"
  /\ queue' = Tail(queue)
  /\ cleanup_partial_download(Head(queue).vid)
  /\ UNCHANGED <<gw, sv, fe, db, cancelFlag, file, published, req, wk, lastResp, opsLeft>>

\* if await redis.get(f"cancel:{video_id}")
CheckCancel(w) ==
  /\ wk[w].pc = "check_cancel"
  /\ wk' = [wk EXCEPT ![w].pc = IF cancelFlag[wk[w].vid] THEN "delete_flag"
                                ELSE "set_downloading"]
  /\ UNCHANGED <<gw, sv, fe, db, cancelFlag, queue, file, mediaDir, published, req, lastResp, opsLeft>>

\* await redis.delete(f"cancel:{video_id}"); return {"status": "cancelled"}
DeleteFlag(w) ==
  /\ wk[w].pc = "delete_flag"
  /\ cancelFlag' = [cancelFlag EXCEPT ![wk[w].vid] = FALSE]
  /\ wk' = [wk EXCEPT ![w] = IdleWk]
  /\ UNCHANGED <<gw, sv, fe, db, queue, file, mediaDir, published, req, lastResp, opsLeft>>

\* video = await db.get(Video, video_id); if video: video.status =
\* "downloading"; await db.commit().  The download starts either way.
SetDownloading(w) ==
  /\ wk[w].pc = "set_downloading"
  /\ LET v == wk[w].vid IN
     db' = IF db[v].status = "none" THEN db
           ELSE [db EXCEPT ![v].status = "downloading"]
  /\ wk' = [wk EXCEPT ![w].pc = "downloading", ![w].stream = 1]
  /\ UNCHANGED <<gw, sv, fe, cancelFlag, queue, file, mediaDir, published, req, lastResp, opsLeft>>

\* progress_hook called by the provider with d['status'] == 'downloading':
\* the cancellation check first, then the publish on progress:{video_id}.
\* n is d['downloaded_bytes'], k says whether d carries a total.
ProgressHook(w, n, k) ==
  /\ wk[w].pc = "downloading"
  /\ n >= wk[w].bytes
  /\ wk[w].known => k
  /\ LET v == wk[w].vid IN
     /\ file' = [file EXCEPT ![v].part = TRUE]
     /\ IF cancelFlag[v]
          THEN /\ wk' = [wk EXCEPT ![w].pc = "cancelled_cleanup"]
               /\ UNCHANGED <<published, inbox, sincePub>>
          ELSE /\ wk' = [wk EXCEPT ![w].bytes = n, ![w].known = k]
               /\ publish(v, Percent(n, IF k THEN MaxBytes ELSE 0))
  /\ UNCHANGED <<conn, subs, registry, client, sv, fe>>
  /\ UNCHANGED <<db, cancelFlag, queue, mediaDir, req, lastResp, opsLeft>>

\* progress_hook called with d['status'] == 'finished' at the end of a
\* stream: the cancellation check, no publish.  Then the provider fetches
\* the next stream of the format, or merges into {video_id}.mp4 and returns.
StreamFinished(w, more) ==
  /\ wk[w].pc = "downloading"
  /\ wk[w].bytes = MaxBytes
  /\ LET v == wk[w].vid IN
     IF cancelFlag[v]
       THEN /\ wk' = [wk EXCEPT ![w].pc = "cancelled_cleanup"]
            /\ UNCHANGED file
     ELSE IF more /\ wk[w].stream < NumStreams
       THEN /\ wk' = [wk EXCEPT ![w].stream = @ + 1, ![w].bytes = 0,
                                ![w].known = FALSE]
            /\ UNCHANGED file
     ELSE /\ wk' = [wk EXCEPT ![w].pc = "success_commit"]
          /\ file' = [file EXCEPT ![v] = [mp4 |-> TRUE, part |-> FALSE]]
  /\ UNCHANGED <<gw, sv, fe, db, cancelFlag, queue, mediaDir, published, req, lastResp, opsLeft>>

\* the provider raises (geo-blocked, unavailable, network timeout, ...)
ProviderError(w) ==
  /\ wk[w].pc = "downloading"
  /\ wk' = [wk EXCEPT ![w].pc = "fail_commit"]
  /\ UNCHANGED <<gw, sv, fe, db, cancelFlag, queue, file, mediaDir, published, req, lastResp, opsLeft>>

\* success path: if video: video.status = "complete"; ...; await db.commit()
SuccessCommit(w) ==
  /\ wk[w].pc = "success_commit"
  /\ LET v == wk[w].vid IN
     db' = IF db[v].status = "none" THEN db
           ELSE [db EXCEPT ![v].status = "complete"]
  /\ wk' = [wk EXCEPT ![w] = IdleWk]
  /\ UNCHANGED <<gw, sv, fe, cancelFlag, queue, file, mediaDir, published, req, lastResp, opsLeft>>

\* except Exception: if video: video.status = "failed"; error_message set;
\* commit; raise.  ARQ may run the job again while job_try < max_tries.
FailCommit(w, retry) ==
  /\ wk[w].pc = "fail_commit"
  /\ LET v == wk[w].vid IN
     /\ db' = IF db[v].status = "none" THEN db
              ELSE [db EXCEPT ![v] = [status |-> "failed", error |-> "error"]]
     /\ IF retry
          THEN /\ wk[w].try < max_tries
               /\ Len(queue) < MaxQueue
               /\ queue' = Append(queue, DownloadJob(v, wk[w].try + 1))
          ELSE UNCHANGED queue
  /\ wk' = [wk EXCEPT ![w] = IdleWk]
  /\ UNCHANGED <<gw, sv, fe, cancelFlag, file, mediaDir, published, req, lastResp, opsLeft>>

\* except DownloadCancelledException: await cleanup_partial_download(ctx,
\* video_id); return {"status": "cancelled"}
CancelledCleanup(w) ==
  /\ wk[w].pc = "cancelled_cleanup"
  /\ cleanup_partial_download(wk[w].vid)
  /\ wk' = [wk EXCEPT ![w] = IdleWk]
  /\ UNCHANGED <<gw, sv, fe, db, cancelFlag, queue, file, published, req, lastResp, opsLeft>>

\* ------------------------------------------------ WebSocket /ws/progress
\* the pipeline and the streaming endpoint, which the gateway never touches
pipeline == <<db, cancelFlag, queue, file, mediaDir, published, req, wk,
              lastResp, opsLeft>>

\* connections are numbered in the order the gateway accepts them
NextConn(c) ==
  /\ conn[c] = "new"
  /\ \A c2 \in Conns : c2 < c => conn[c2] # "new"

\* what the browser knows when it attaches: the percent of a download that
\* is running, from the videos list it has fetched
AttachedAt(v) ==
  IF db[v].status = "downloading" THEN published[v] ELSE NotRunning

\* websocket_progress ends: finally: await pubsub.punsubscribe("progress:*"),
\* after manager.disconnect(websocket) when the exception was
\* WebSocketDisconnect.  The closed socket closes the browser's end.
EndHandler(c, wsd) ==
  /\ conn' = [conn EXCEPT ![c] = "ended"]
  /\ registry' = IF wsd THEN registry \ {c} ELSE registry
  /\ subs' = subs \ {c}
  /\ inbox' = [inbox EXCEPT ![c] = <<>>]
  /\ client' = [client EXCEPT ![c].state = "gone"]

\* await manager.connect(websocket): accept and append to active_connections;
\* then pubsub = redis.pubsub(); await pubsub.psubscribe("progress:*")
Connect(c) ==
  /\ NextConn(c)
  /\ conn' = [conn EXCEPT ![c] = "get_message"]
  /\ registry' = registry \cup {c}
  /\ subs' = subs \cup {c}
  /\ client' = [client EXCEPT ![c] = [state |-> "open",
                                      got |-> [v \in Videos |-> NoPercent],
                                      at |-> [v \in Videos |-> AttachedAt(v)]]]
  /\ UNCHANGED <<inbox, sincePub, pipeline, sv, fe>>

\* message = await pubsub.get_message(ignore_subscribe_messages=True,
\* timeout=1.0).  With a pmessage in hand the handler evaluates
\* message["channel"].decode(): get_redis() builds its pool with
\* decode_responses=True, so the channel is a str and the call raises
\* AttributeError before send_json is reached.  With no message the handler
\* goes on to receive_text.
GetMessage(c) ==
  /\ conn[c] = "get_message"
  /\ IF inbox[c] # <<>>
       THEN EndHandler(c, FALSE)
       ELSE /\ conn' = [conn EXCEPT ![c] = "receive"]
            /\ UNCHANGED <<registry, subs, inbox, client>>
  /\ UNCHANGED <<sincePub, pipeline, sv, fe>>

\* data = await asyncio.wait_for(websocket.receive_text(), timeout=0.1):
\* WebSocketDisconnect when the client has gone; otherwise a "ping" to be
\* answered, or the timeout
Receive(c, ping) ==
  /\ conn[c] = "receive"
  /\ IF client[c].state = "gone"
       THEN EndHandler(c, TRUE)
       ELSE /\ conn' = [conn EXCEPT ![c] = IF ping THEN "pong" ELSE "get_message"]
            /\ UNCHANGED <<registry, subs, inbox, client>>
  /\ UNCHANGED <<sincePub, pipeline, sv, fe>>

\* await websocket.send_text("pong"): completes when the client reads; never
\* completes while the client has stopped reading; raises when the client has
\* gone, WebSocketDisconnect or the server's own exception, by version
SendPong(c, wsd) ==
  /\ conn[c] = "pong"
  /\ client[c].state # "stalled"
  /\ IF client[c].state = "gone"
       THEN EndHandler(c, wsd)
       ELSE /\ conn' = [conn EXCEPT ![c] = "get_message"]
            /\ UNCHANGED <<registry, subs, inbox, client>>
  /\ UNCHANGED <<sincePub, pipeline, sv, fe>>

\* the browser stops reading from its socket
ClientStall(c) ==
  /\ conn[c] \notin {"new", "ended"}
  /\ client[c].state = "open"
  /\ client' = [client EXCEPT ![c].state = "stalled"]
  /\ UNCHANGED <<conn, subs, registry, inbox, sincePub, pipeline, sv, fe>>

\* the browser closes the socket, or its network goes away
ClientClose(c) ==
  /\ conn[c] \notin {"new", "ended"}
  /\ client[c].state \in {"open", "stalled"}
  /\ client' = [client EXCEPT ![c].state = "gone"]
  /\ UNCHANGED <<conn, subs, registry, inbox, sincePub, pipeline, sv, fe>>

\* the clock advances by one tick
Tick ==
  /\ \E v \in Videos : sincePub[v] < ThrottleTicks
  /\ sincePub' = [v \in Videos |-> Min(sincePub[v] + 1, ThrottleTicks)]
  /\ UNCHANGED <<conn, subs, registry, inbox, client, pipeline, sv, fe>>

\* ------------------------------------------- GET /api/stream/{video_id}
Max(a, b) == IF a > b THEN a ELSE b

\* stream_file called without an end (end: int = None)
NoEnd == -1

\* the Range headers of the three forms bytes=a-b, bytes=a- and bytes=-a
RangeNums == (0..MaxNum) \cup {SuffixLen}

RangeHeaders ==
  [form : {"range"}, a : RangeNums, b : RangeNums]
    \cup [form : {"open", "suffix"}, a : RangeNums, b : {0}]

\* mutation of parse_range_header: bytes=-a read as the first a bytes
parse_range_header_prefix(h, file_size) ==
  IF h.form = "none" THEN <<0, file_size - 1>>
  ELSE
    LET raw == IF h.form = "suffix"
                 THEN <<0, h.a - 1>>
               ELSE IF h.form = "open"
                 THEN <<h.a, file_size - 1>>
               ELSE <<h.a, h.b>>
        start == Max(0, Min(raw[1], file_size - 1))
        end == Max(start, Min(raw[2], file_size - 1))
    IN <<start, end>>

\* mutation of stream_file: the end position taken as exclusive
stream_file_exclusive(file_size, start, end) ==
  LET last == IF end = NoEnd \/ end = 0 THEN file_size - 1 ELSE end
      remaining == last - start
  IN [from |-> start, len |-> Max(0, Min(remaining, file_size - start))]

\* parse_range_header(range_header, file_size): the (start, end) pair
parse_range_header(h, file_size) ==
  IF h.form = "none" THEN <<0, file_size - 1>>
  ELSE
    LET raw == IF h.form = "suffix"
                 THEN <<Max(0, file_size - h.a), file_size - 1>>
               ELSE IF h.form = "open"
                 THEN <<h.a, file_size - 1>>
               ELSE <<h.a, h.b>>
        start == Max(0, Min(raw[1], file_size - 1))
        end == Max(start, Min(raw[2], file_size - 1))
    IN <<start, end>>

\* StreamingService.stream_file(path, start, end): end = end or file_size - 1,
\* seek to start, then read until end - start + 1 bytes are sent or the file
\* ends.  The body is the run of len bytes of the file from offset from.
stream_file(file_size, start, end) ==
  LET last == IF end = NoEnd \/ end = 0 THEN file_size - 1 ELSE end
      remaining == last - start + 1
  IN [from |-> start, len |-> Max(0, Min(remaining, file_size - start))]

\* mutation of VideoReady: any row lets the request through
VideoExists(v) == db[v].status # "none"

\* stream_video: video = await db.get(Video, video_id); 404 unless the row is
\* there with status "complete"
VideoReady(v) == db[v].status = "complete"

\* stream_video: the whole handler, from db.get to the body sent
StreamVideo(v, h) ==
  /\ sresp' =
       LET seen == db[v].status
           base == [NoStreamResp EXCEPT !.vid = v, !.seen = seen, !.header = h]
       IN
       IF ~VideoReady(v) \/ ~file[v].mp4
         THEN [base EXCEPT !.code = "404"]
       ELSE
         LET file_size == fsize[v]
             se == parse_range_header(h, file_size)
             content_length == se[2] - se[1] + 1
         IN [base EXCEPT !.code = IF h.form # "none" THEN "206" ELSE "200",
                         !.start = se[1], !.end = se[2], !.size = file_size,
                         !.length = content_length,
                         !.body = IF h.form # "none"
                                    THEN stream_file(file_size, se[1], se[2])
                                    ELSE stream_file(file_size, 0, NoEnd)]
  /\ UNCHANGED <<fsize, pipeline, gw, fe>>

\* -------------------------------------- frontend: useWebSocket, useDownloadProgress
\* A WebSocket object is "connecting" or "open" (readyState CONNECTING, OPEN),
\* "failing" (the browser has an error event and then a close event queued for
\* it), "closing" (a close event queued) or "closed" (its close event has been
\* delivered).
LiveSock == {"connecting", "open"}

\* WebSocket.close(): a no-op on a socket already closing or closed; a socket
\* closed before its handshake ends fails the connection (error, then close)
CloseSock(st) ==
  IF st = "connecting" THEN "failing"
  ELSE IF st = "open" THEN "closing"
  ELSE st

\* a video id as the text the server sends: 11 characters
video_id_text(v) == "dQw4w9WgXcQ"

\* the messages the gateway's protocol can carry to the page
Percents == {NoPercent, 0, 50, 100}
Messages ==
  [type : {"progress", "status"}, video_id : Videos, percent : Percents,
   status : {"downloading", "complete", "failed"}]

\* handleMessage of useDownloadProgress: the progress map after message m
handleMessage(prev, m) ==
  LET p1 == IF m.type = "progress"
            THEN [prev EXCEPT ![m.video_id] =
                    IF m.percent \in {NoPercent, 0} THEN 0 ELSE m.percent]
            ELSE prev
  IN IF m.type = "status" /\ video_id_text(m.video_id) \in {"complete", "failed"}
     THEN [p1 EXCEPT ![m.video_id] = NoPercent]
     ELSE p1

\* getOrCreateConnection, called with tm the timers still pending
getOrCreateConnection(tm) ==
  IF wsInstance # 0 /\ sock[wsInstance] = "open"
  THEN /\ timers' = tm
       /\ UNCHANGED <<sock, wsInstance, isConnecting, reconnectTimeout>>
  ELSE IF isConnecting /\ wsInstance # 0
  THEN /\ timers' = tm
       /\ UNCHANGED <<sock, wsInstance, isConnecting, reconnectTimeout>>
  ELSE /\ \E s \in Socks : sock[s] = "unused"
       /\ LET s == CHOOSE x \in Socks :
                     sock[x] = "unused" /\ \A y \in Socks : sock[y] = "unused" => x <= y
          IN /\ timers' = tm \ {reconnectTimeout}
             /\ reconnectTimeout' = 0
             /\ isConnecting' = TRUE
             /\ wsInstance' = s
             /\ sock' = [sock EXCEPT ![s] = "connecting"]

\* the effect of useWebSocket runs: the listeners are added, the shared
\* connection is fetched or created
Mount ==
  /\ mounted < MaxHooks
  /\ mounted' = mounted + 1
  /\ getOrCreateConnection(timers)
  /\ UNCHANGED <<nextTimer, pingInterval, progress>>
  /\ UNCHANGED <<pipeline, gw, sv>>

\* the effect's cleanup: the listeners are removed; when none remain the
\* timers are cleared and the connection is closed
Unmount ==
  /\ mounted > 0
  /\ mounted' = mounted - 1
  /\ IF mounted' = 0
     THEN /\ timers' = timers \ {reconnectTimeout}
          /\ reconnectTimeout' = 0
          /\ pingInterval' = FALSE
          /\ sock' = IF wsInstance # 0
                     THEN [sock EXCEPT ![wsInstance] = CloseSock(@)]
                     ELSE sock
          /\ wsInstance' = 0
     ELSE UNCHANGED <<timers, reconnectTimeout, pingInterval, sock, wsInstance>>
  /\ UNCHANGED <<isConnecting, nextTimer, progress>>
  /\ UNCHANGED <<pipeline, gw, sv>>

\* the handshake of socket s ends: onopen
OnOpen(s) ==
  /\ sock[s] = "connecting"
  /\ sock' = [sock EXCEPT ![s] = "open"]
  /\ isConnecting' = FALSE
  /\ pingInterval' = TRUE
  /\ UNCHANGED <<wsInstance, timers, reconnectTimeout, nextTimer, mounted, progress>>
  /\ UNCHANGED <<pipeline, gw, sv>>

\* the network or the server ends socket s: abnormally (an error event, then a
\* close event) or with a closing handshake (a close event)
Drop(s, abnormal) ==
  /\ sock[s] \in LiveSock
  /\ sock' = [sock EXCEPT ![s] = IF abnormal \/ sock[s] = "connecting"
                                 THEN "failing" ELSE "closing"]
  /\ UNCHANGED <<wsInstance, isConnecting, timers, reconnectTimeout, nextTimer,
                 pingInterval, mounted, progress>>
  /\ UNCHANGED <<pipeline, gw, sv>>

\* the error event of socket s is delivered: onerror closes wsInstance
OnError(s) ==
  /\ sock[s] = "failing"
  /\ sock' = [x \in Socks |->
                IF x = s THEN "closing"
                ELSE IF x = wsInstance THEN CloseSock(sock[x])
                ELSE sock[x]]
  /\ UNCHANGED <<wsInstance, isConnecting, timers, reconnectTimeout, nextTimer,
                 pingInterval, mounted, progress>>
  /\ UNCHANGED <<pipeline, gw, sv>>

\* onclose without its reconnect branch
OnCloseNoReconnect(s) ==
  /\ sock[s] = "closing"
  /\ sock' = [sock EXCEPT ![s] = "closed"]
  /\ isConnecting' = FALSE
  /\ wsInstance' = 0
  /\ pingInterval' = FALSE
  /\ UNCHANGED <<timers, reconnectTimeout, nextTimer>>
  /\ UNCHANGED <<mounted, progress>>
  /\ UNCHANGED <<pipeline, gw, sv>>

\* the close event of socket s is delivered: onclose
OnClose(s) ==
  /\ sock[s] = "closing"
  /\ sock' = [sock EXCEPT ![s] = "closed"]
  /\ isConnecting' = FALSE
  /\ wsInstance' = 0
  /\ pingInterval' = FALSE
  /\ IF mounted > 0
     THEN /\ nextTimer < MaxTimers
          /\ nextTimer' = nextTimer + 1
          /\ timers' = timers \cup {nextTimer'}
          /\ reconnectTimeout' = nextTimer'
     ELSE UNCHANGED <<timers, reconnectTimeout, nextTimer>>
  /\ UNCHANGED <<mounted, progress>>
  /\ UNCHANGED <<pipeline, gw, sv>>

\* reconnect timer t fires
TimerFires(t) ==
  /\ t \in timers
  /\ getOrCreateConnection(timers \ {t})
  /\ UNCHANGED <<nextTimer, pingInterval, mounted, progress>>
  /\ UNCHANGED <<pipeline, gw, sv>>

\* a JSON message arrives on socket s: onmessage hands it to every listener
OnMessage(s, m) ==
  /\ sock[s] = "open"
  /\ progress' = IF mounted > 0 THEN handleMessage(progress, m) ELSE progress
  /\ UNCHANGED <<sock, wsInstance, isConnecting, timers, reconnectTimeout,
                 nextTimer, pingInterval, mounted>>
  /\ UNCHANGED <<pipeline, gw, sv>>

\* ------------------------------------------------------------ specification
Next ==
  \/ \E r \in Reqs, v \in Videos, valid \in BOOLEAN : IngestGet(r, v, valid)
  \/ \E r \in Reqs : IngestRetryCommit(r)
  \/ \E r \in Reqs, ok \in BOOLEAN : IngestExtract(r, ok)
  \/ \E r \in Reqs : IngestInsert(r)
  \/ \E r \in Reqs : IngestEnqueue(r)
  \/ \E r \in Reqs, v \in Videos : CancelGet(r, v)
  \/ \E r \in Reqs : CancelSetFlag(r)
  \/ \E r \in Reqs : CancelCommit(r)
  \/ \E r \in Reqs : CancelEnqueue(r)
  \/ \E r \in Reqs, v \in Videos : DeleteGet(r, v)
  \/ \E r \in Reqs : DeleteCommit(r)
  \/ \E w \in Workers : StartJob(w)
  \/ \E w \in Workers : RunCleanupJob(w)
  \/ \E w \in Workers : CheckCancel(w)
  \/ \E w \in Workers : DeleteFlag(w)
  \/ \E w \in Workers : SetDownloading(w)
  \/ \E w \in Workers, n \in 0..MaxBytes, k \in BOOLEAN : ProgressHook(w, n, k)
  \/ \E w \in Workers, more \in BOOLEAN : StreamFinished(w, more)
  \/ \E w \in Workers : ProviderError(w)
  \/ \E w \in Workers : SuccessCommit(w)
  \/ \E w \in Workers, retry \in BOOLEAN : FailCommit(w, retry)
  \/ \E w \in Workers : CancelledCleanup(w)

Spec == Init /\ [][Next]_vars

\* The gateway with the download worker: every video has been ingested (a
\* pending row, its download job queued); browsers connect while the jobs run.
InitGateway ==
  /\ db = [v \in Videos |-> [status |-> "pending", error |-> "none"]]
  /\ cancelFlag = [v \in Videos |-> FALSE]
  /\ queue = [i \in 1..NumVideos |-> DownloadJob(i, 1)]
  /\ file = [v \in Videos |-> NoFile]
  /\ mediaDir = [v \in Videos |-> FALSE]
  /\ published = [v \in Videos |-> NoPercent]
  /\ req = [r \in Reqs |-> IdleReq]
  /\ wk = [w \in Workers |-> IdleWk]
  /\ lastResp = NoResp
  /\ opsLeft = 0
  /\ InitExt
  /\ fsize = [v \in Videos |-> 0]

NextGateway ==
  \/ \E w \in Workers : StartJob(w)
  \/ \E w \in Workers : CheckCancel(w)
  \/ \E w \in Workers : SetDownloading(w)
  \/ \E w \in Workers, n \in 0..MaxBytes, k \in BOOLEAN : ProgressHook(w, n, k)
  \/ \E w \in Workers, more \in BOOLEAN : StreamFinished(w, more)
  \/ \E w \in Workers : ProviderError(w)
  \/ \E w \in Workers : SuccessCommit(w)
  \/ \E w \in Workers, retry \in BOOLEAN : FailCommit(w, retry)
  \/ \E c \in Conns : Connect(c)
  \/ \E c \in Conns : GetMessage(c)
  \/ \E c \in Conns, ping \in BOOLEAN : Receive(c, ping)
  \/ \E c \in Conns, wsd \in BOOLEAN : SendPong(c, wsd)
  \/ \E c \in Conns : ClientStall(c)
  \/ \E c \in Conns : ClientClose(c)
  \/ Tick

SpecGateway == InitGateway /\ [][NextGateway]_vars

Statuses == {"none", "pending", "downloading", "complete", "failed", "cancelled"}

\* The streaming endpoint over what the pipeline can leave behind: a row of
\* any status (or none), with or without {video_id}.mp4 of some size, with or
\* without partial files.
InitStream ==
  /\ \E v0 \in Videos, st \in Statuses, mp4 \in BOOLEAN, part \in BOOLEAN,
        size \in 1..MaxSize :
       /\ db = [v \in Videos |-> IF v = v0 /\ st # "none"
                                   THEN [status |-> st, error |-> "none"]
                                   ELSE NoRow]
       /\ file = [v \in Videos |-> IF v = v0 THEN [mp4 |-> mp4, part |-> part]
                                   ELSE NoFile]
       /\ fsize = [v \in Videos |-> IF v = v0 /\ mp4 THEN size ELSE 0]
  /\ cancelFlag = [v \in Videos |-> FALSE]
  /\ queue = <<>>
  /\ mediaDir = [v \in Videos |-> FALSE]
  /\ published = [v \in Videos |-> NoPercent]
  /\ req = [r \in Reqs |-> IdleReq]
  /\ wk = [w \in Workers |-> IdleWk]
  /\ lastResp = NoResp
  /\ opsLeft = 0
  /\ InitExt

NextStream ==
  \E v \in Videos, h \in RangeHeaders \cup {NoRange} : StreamVideo(v, h)

SpecStream == InitStream /\ [][NextStream]_vars

\* The gateway on its own, with no download running: the handlers and the
\* browsers at the other end.  The event loop runs every handler that can
\* take a step; nothing obliges a browser to stall or to close.
NextKeepalive ==
  \/ \E c \in Conns : Connect(c)
  \/ \E c \in Conns : GetMessage(c)
  \/ \E c \in Conns, ping \in BOOLEAN : Receive(c, ping)
  \/ \E c \in Conns, wsd \in BOOLEAN : SendPong(c, wsd)
  \/ \E c \in Conns : ClientStall(c)
  \/ \E c \in Conns : ClientClose(c)

SpecKeepalive ==
  /\ Init
  /\ [][NextKeepalive]_vars
  /\ \A c \in Conns :
       /\ WF_vars(Connect(c))
       /\ WF_vars(GetMessage(c))
       /\ WF_vars(\E ping \in BOOLEAN : Receive(c, ping))
       /\ WF_vars(\E wsd \in BOOLEAN : SendPong(c, wsd))

\* The page: the hook mounting and unmounting, the browser delivering socket
\* events and timers, the server's messages.
NextFrontend ==
  \/ Mount
  \/ Unmount
  \/ \E s \in Socks : OnOpen(s)
  \/ \E s \in Socks, abnormal \in BOOLEAN : Drop(s, abnormal)
  \/ \E s \in Socks : OnError(s)
  \/ \E s \in Socks : OnClose(s)
  \/ \E t \in Timers : TimerFires(t)
  \/ \E s \in Socks, m \in Messages : OnMessage(s, m)

SpecFrontend == Init /\ [][NextFrontend]_vars

\* ------------------------------------------------------------------ claims
\* no request and no job is in flight or queued for video v
Quiescent(v) ==
  /\ \A r \in Reqs : req[r].pc # "done" => req[r].vid # v
  /\ \A w \in Workers : wk[w].pc # "idle" => wk[w].vid # v
  /\ \A i \in 1..Len(queue) : queue[i].vid # v

\* C1: at any time at most one execution of download_video is downloading a
\* given video id
C1_OneRunningExecution ==
  \A v \in Videos : \A w1, w2 \in Workers :
    (wk[w1].pc = "downloading" /\ wk[w1].vid = v /\
     wk[w2].pc = "downloading" /\ wk[w2].vid = v) => w1 = w2

\* C2: once a cancel that found the video downloading has been answered and
\* every job for the video has stopped, the video is cancelled and has no file
\* in /data/videos
C2_CancelledLeavesNoFile ==
  \A v \in Videos :
    (/\ lastResp.op = "cancel" /\ lastResp.vid = v /\ lastResp.code = "200"
     /\ lastResp.seen = "downloading"
     /\ Quiescent(v))
    => (db[v].status = "cancelled" /\ file[v] = NoFile)

\* C3: after a cancel that read the status pending has committed cancelled,
\* no worker sets the video to downloading
C3_PendingCancelNeverRuns ==
  [][\A r \in Reqs :
       (req[r].op = "cancel" /\ req[r].pc = "cancel_enqueue" /\
        req[r].seen = "pending" /\ db[req[r].vid].status = "cancelled")
       => db'[req[r].vid].status # "downloading"]_vars

\* C4: a cancel never replaces the complete or failed status the worker has
\* already written
C4_TerminalStateWins ==
  [][\A v \in Videos :
       db[v].status \in {"complete", "failed"} => db'[v].status # "cancelled"]_vars

\* C5: an ingest handler that reaches its write while the video is pending or
\* downloading answers 409, writes no row and enqueues nothing
C5_DuplicateSubmitConflicts ==
  [][\A r \in Reqs :
       (req[r].op = "ingest" /\
        req[r].pc \in {"ingest_retry_commit", "ingest_insert"} /\
        db[req[r].vid].status \in {"pending", "downloading"} /\
        req'[r] # req[r])
       => /\ lastResp'.op = "ingest" /\ lastResp'.vid = req[r].vid
          /\ lastResp'.code = "409"
          /\ db' = db
          /\ queue' = queue]_vars

Allowed ==
  { <<"pending", "downloading">>, <<"downloading", "complete">>,
    <<"downloading", "failed">>, <<"downloading", "cancelled">>,
    <<"pending", "cancelled">>, <<"failed", "pending">>,
    <<"cancelled", "pending">> }

\* C6: every change of the status of an existing row is an edge of the job
\* state machine
C6_OnlyStateMachineEdges ==
  [][\A v \in Videos :
       (db[v].status # "none" /\ db'[v].status # "none" /\
        db'[v].status # db[v].status)
       => <<db[v].status, db'[v].status>> \in Allowed]_vars

\* C7: a complete video has exactly {video_id}.mp4 on disk, a failed or
\* cancelled video has no file, once nothing is in flight for it
C7_TerminalFiles ==
  \A v \in Videos : Quiescent(v) =>
    /\ db[v].status = "complete" => file[v] = [mp4 |-> TRUE, part |-> FALSE]
    /\ db[v].status \in {"failed", "cancelled"} => file[v] = NoFile

\* C8: an execution that has already published a percent never publishes a
\* lower one
C8_PercentNeverDecreases ==
  [][\A w \in Workers :
       (wk[w].pc = "downloading" /\ wk'[w].pc = "downloading" /\
        (wk[w].bytes > 0 \/ wk[w].stream > 1 \/ wk[w].known) /\
        \A w2 \in Workers : w2 # w => wk[w2].vid # wk[w].vid)
       => published'[wk[w].vid] >= published[wk[w].vid]]_vars

\* C9: a failed video is never set back to downloading: the download runs
\* again only after an ingest from outside has made the video pending
C9_NoAutomaticRerun ==
  [][\A v \in Videos :
       db[v].status = "failed" => db'[v].status # "downloading"]_vars

\* C10: when an ingest that found the video failed or cancelled commits its
\* update, the row is pending with no error, no other row changes, and the
\* latest live progress of the video is back to 0 (or there is none)
C10_RetryResetsJob ==
  [][\A r \in Reqs :
       (req[r].op = "ingest" /\ req[r].pc = "ingest_retry_commit" /\
        req'[r].pc = "ingest_enqueue")
       => LET v == req[r].vid IN
          /\ db' = [db EXCEPT ![v] = [status |-> "pending", error |-> "none"]]
          /\ published'[v] \in {NoPercent, 0}]_vars

\* C11: when the worker's cleanup after a cancellation has run and returned,
\* whatever it found on disk, the video is in a terminal state: it is not left
\* downloading with no request and no other execution at work on it
C11_CleanupReachesTerminal ==
  [][\A w \in Workers :
       (/\ wk[w].pc = "cancelled_cleanup" /\ wk'[w].pc = "idle"
        /\ \A r \in Reqs : req[r].pc # "done" => req[r].vid # wk[w].vid
        /\ \A w2 \in Workers : w2 # w => wk[w2].vid # wk[w].vid)
       => db'[wk[w].vid].status # "downloading"]_vars

\* C12: while the client of another subscribed connection has stopped
\* reading, the handler of a connection whose client is reading sends that
\* client every event it takes from its subscription
C12_SlowSubscriberAlone ==
  [][\A c \in Conns :
       (/\ conn[c] = "get_message" /\ inbox[c] # <<>>
        /\ client[c].state = "open"
        /\ \E c2 \in Conns : c2 # c /\ c2 \in subs /\ client[c2].state = "stalled"
        /\ conn'[c] # conn[c])
       => client'[c].got[Head(inbox[c]).vid] = Head(inbox[c]).percent]_vars

\* C13: when the worker commits the status complete, the last event on the
\* video's progress channel is the final one, percent 100
C13_CompleteHasTerminalEvent ==
  [][\A w \in Workers :
       (/\ wk[w].pc = "success_commit" /\ wk'[w].pc = "idle"
        /\ db'[wk[w].vid].status = "complete")
       => published'[wk[w].vid] = 100]_vars

\* C14: a progress callback that publishes after an earlier publication for
\* the same video does so a full throttle interval later, unless it publishes
\* the final 100
C14_PublishThrottled ==
  [][\A w \in Workers :
       (/\ wk[w].pc = "downloading" /\ wk'[w].pc = "downloading"
        /\ wk'[w].stream = wk[w].stream /\ wk'[w] # wk[w]
        /\ published[wk[w].vid] # NoPercent)
       => \/ sincePub[wk[w].vid] >= ThrottleTicks
          \/ published'[wk[w].vid] = 100]_vars

\* C15: a connection whose handler has ended is neither in
\* manager.active_connections nor subscribed, so neither collection is larger
\* than the set of live connections
C15_NoLeakedConnection ==
  LET Live == {c \in Conns : conn[c] \notin {"new", "ended"}} IN
  /\ registry \subseteq Live
  /\ subs \subseteq Live

\* nothing is queued or running for video v and no event waits for connection c
Drained(c, v) ==
  /\ \A w \in Workers : wk[w].pc # "idle" => wk[w].vid # v
  /\ \A i \in 1..Len(queue) : queue[i].vid # v
  /\ inbox[c] = <<>>

\* C20: a client that attached while the video was downloading, and is still
\* connected and reading when the video is complete and every event has been
\* handed over, has received the final 100 and nothing below the percent it
\* attached at
C20_LateSubscriberSeesEnd ==
  \A c \in Conns : \A v \in Videos :
    (/\ client[c].state = "open" /\ client[c].at[v] # NotRunning
     /\ conn[c] \in {"get_message", "receive"}
     /\ db[v].status = "complete" /\ Drained(c, v))
    => client[c].got[v] = 100

\* C16: a stream request that finds no row, or a row whose status is not
\* complete, is answered 404 with no body, whatever files are on disk
C16_IncompleteNotFound ==
  (sresp.vid # NoVideo /\ sresp.seen # "complete")
    => (sresp.code = "404" /\ sresp.body = NoBody)

C16_Witness ==
  /\ sresp.vid # NoVideo /\ sresp.seen = "downloading" /\ sresp.code = "404"
  /\ file[sresp.vid].mp4

\* C17: a request with a Range header for a complete video that has its file
\* is answered 206 with 0 <= start <= end <= size - 1, Content-Length
\* end - start + 1, and a body of exactly the bytes start..end
C17_RangeResponseExact ==
  (sresp.vid # NoVideo /\ sresp.header # NoRange /\ sresp.code # "404")
    => /\ sresp.code = "206"
       /\ 0 <= sresp.start /\ sresp.start <= sresp.end
       /\ sresp.end <= sresp.size - 1
       /\ sresp.length = sresp.end - sresp.start + 1
       /\ sresp.body = [from |-> sresp.start, len |-> sresp.end - sresp.start + 1]

\* C18: for a complete video, a request without Range followed by a request
\* with bytes=0- gets 200 and then 206, the same body, the whole file, and
\* Content-Length equal to the file size both times
C18_OpenRangeEqualsFull ==
  [][(/\ sresp.vid # NoVideo /\ sresp'.vid = sresp.vid
      /\ sresp.code # "404" /\ sresp'.code # "404"
      /\ sresp.header = NoRange
      /\ sresp'.header = [form |-> "open", a |-> 0, b |-> 0])
     => /\ sresp.code = "200" /\ sresp'.code = "206"
        /\ sresp'.body = sresp.body
        /\ sresp.body = [from |-> 0, len |-> sresp.size]
        /\ sresp.length = sresp.size /\ sresp'.length = sresp'.size]_vars

C18_Witness ==
  /\ sresp.header = [form |-> "open", a |-> 0, b |-> 0] /\ sresp.code = "206"
  /\ sresp.size > 1 /\ sresp.body = [from |-> 0, len |-> sresp.size]

\* C19: for a complete video of size S, bytes=-100 is answered 206 with
\* Content-Range max(0, S-100) to S-1 of S and a body of exactly the last
\* min(100, S) bytes
C19_SuffixRange ==
  (/\ sresp.vid # NoVideo /\ sresp.code # "404"
   /\ sresp.header = [form |-> "suffix", a |-> SuffixLen, b |-> 0])
    => /\ sresp.code = "206"
       /\ sresp.start = Max(0, sresp.size - SuffixLen)
       /\ sresp.end = sresp.size - 1
       /\ sresp.length = Min(SuffixLen, sresp.size)
       /\ sresp.body = [from |-> sresp.size - Min(SuffixLen, sresp.size),
                        len |-> Min(SuffixLen, sresp.size)]

C19_Witness ==
  /\ sresp.header = [form |-> "suffix", a |-> SuffixLen, b |-> 0]
  /\ sresp.code = "206" /\ sresp.size > SuffixLen
  /\ sresp.body = [from |-> sresp.size - SuffixLen, len |-> SuffixLen]

\* C21: a progress callback that publishes on progress:{video_id} does so for
\* a video that has a row in the videos table at that moment
C21_PublishedJobExists ==
  [][\A w \in Workers :
       (/\ wk[w].pc = "downloading" /\ wk'[w].pc = "downloading"
        /\ wk'[w].stream = wk[w].stream
        /\ (wk'[w] # wk[w] \/ published' # published))
       => db[wk[w].vid].status # "none"]_vars

\* C24: a progress callback whose total is unknown publishes nothing, and one
\* whose total is known publishes floor(downloaded * 100 / total), a percent
\* between 0 and 100
C24_PercentOnlyWhenTotalKnown ==
  [][\A w \in Workers :
       (/\ wk[w].pc = "downloading" /\ wk'[w].pc = "downloading"
        /\ wk'[w].stream = wk[w].stream
        /\ (wk'[w] # wk[w] \/ published' # published)
        /\ \A w2 \in Workers : w2 # w => wk[w2].vid # wk[w].vid)
       => IF wk'[w].known
            THEN /\ published'[wk[w].vid] = (wk'[w].bytes * 100) \div MaxBytes
                 /\ published'[wk[w].vid] \in 0..100
            ELSE published' = published]_vars

\* C28: every stream response that carries a body sends as many bytes as its
\* Content-Length header says, end - start + 1
C28_BodyMatchesContentLength ==
  (sresp.vid # NoVideo /\ sresp.code # "404")
    => (sresp.body.len = sresp.length /\ sresp.length = sresp.end - sresp.start + 1)

\* C29: a download job is never dropped at the cancellation check of
\* download_video while its video has been resubmitted and waits, pending,
\* for that very job
C29_StaleFlagDropsNothing ==
  [][\A w \in Workers :
       (/\ wk[w].pc = "delete_flag" /\ wk'[w].pc = "idle"
        /\ \A r \in Reqs : req[r].pc # "done" => req[r].vid # wk[w].vid
        /\ \A w2 \in Workers : w2 # w => wk[w2].vid # wk[w].vid
        /\ \A i \in 1..Len(queue) : queue[i].vid # wk[w].vid)
       => db[wk[w].vid].status # "pending"]_vars

\* C30: once the row of a video is gone and nothing is in flight for it, no
\* file of that video is in /data/videos
C30_DeletedLeavesNothing ==
  \A v \in Videos :
    (db[v].status = "none" /\ Quiescent(v)) => file[v] = NoFile

\* C22: at any time at most one WebSocket of the page is open or connecting,
\* whatever the hook mounts and unmounts, the close and error events and the
\* reconnect timers.
C22_OneLiveSocket ==
  Cardinality({s \in Socks : sock[s] \in LiveSock}) <= 1

\* C27: a close event delivered while a hook listener is registered sets a
\* new reconnect timer; a reconnect timer that fires under a registered
\* listener leaves wsInstance on a socket that is open, connecting, or closing
\* with its close event (and so the next timer) still to come; and while a
\* listener is registered the page is never left with no socket open,
\* connecting or closing and no reconnect timer pending, so the attempts go on
\* until one opens.
C27_ReconnectWhileListening ==
  /\ [](mounted > 0 =>
         \/ \E s \in Socks : sock[s] \in LiveSock \cup {"failing", "closing"}
         \/ timers # {})
  /\ [][/\ \A s \in Socks :
             ((sock[s] = "closing" /\ sock'[s] = "closed" /\ mounted > 0)
               => (reconnectTimeout' \in timers' \ timers))
         /\ ((mounted > 0 /\ mounted' = mounted /\ timers' # timers
                /\ timers' \subseteq timers)
               => (wsInstance' # 0 /\ sock'[wsInstance'] # "closed"))]_vars

\* a connection closed under a registered listener, its reconnect timer fired
\* and the new attempt opened
C27_Witness ==
  /\ mounted > 0
  /\ sock[1] = "closed"
  /\ sock[2] = "open"
  /\ wsInstance = 2
  /\ nextTimer = 1
  /\ timers = {}

\* C23: when the page is told that a download has reached a terminal status
\* (complete or failed), handleMessage leaves no entry for that video in the
\* progress map, whatever the map held.
C23_TerminalStatusClearsEntry ==
  \A m \in Messages :
    (m.type = "status" /\ m.status \in {"complete", "failed"})
      => handleMessage(progress, m)[m.video_id] = NoPercent

\* C26: a connection whose client has stopped responding does not stay as it
\* is for ever: in time the gateway closes it, unless the client goes away by
\* itself or the gateway hears from it again (a "ping" it has to answer).
C26_UnresponsiveClosed ==
  \A c \in Conns :
    (client[c].state = "stalled")
      ~> (client[c].state = "gone" \/ conn[c] = "pong")
====
